---- MODULE Spec2Model ----
(***************************************************************************)
(* A model of the stage agents of the multi-agent coding framework:        *)
(* DeploymentAgent (retry loop and labeled-section parser),                *)
(* RequirementAnalysisAgent (ambiguity detector, prompt context, JSON      *)
(* extraction with fallback), DocumentationAgent and TestGenerationAgent.  *)
(*                                                                         *)
(* Text is a sequence of tokens.  A token is one character of ordinary     *)
(* text ("x", " ") or one indivisible piece of text that the code searches *)
(* for as a whole (a section marker, a code fence, a brace, a JSON         *)
(* member).  Positions are 0-based as in Python and find returns -1 when   *)
(* nothing is found.                                                       *)
(***************************************************************************)
EXTENDS Integers, Sequences, FiniteSets, TLC

VARIABLES
    dpc,         \* DeploymentAgent: position in generate_deployment_config
    attempt,     \* the loop variable of the retry loop
    content,     \* the local `content` (None until a response gave one)
    last_error,  \* the local `last_error`
    calls,       \* completion calls made so far (generate_reply)
    sleeps,      \* the durations passed to time.sleep, in order
    outcomes,    \* what the completion service did at each call, in order
    config       \* what generate_deployment_config / the parser returned

VARIABLES
    stage,          \* which of the other stages runs, "none" for Deployment
    spc,            \* that stage's position in its handler
    user_input,     \* analyze / _detect_ambiguity: the user's text
    context,        \* analyze: the optional context record
    requirements,   \* the RequirementSet handed to a later stage
    code,           \* the generated code handed to a later stage
    ambiguity_info, \* what _detect_ambiguity returned
    prompt,         \* the prompt the stage composed
    response,       \* what generate_reply returned to the stage
    result,         \* what the stage returned
    error           \* the exception the stage raised, "None" if none

dvars == <<dpc, attempt, content, last_error, config>>

\* The completion-service log, kept for whichever stage runs.
cvars == <<calls, sleeps, outcomes>>

svars == <<stage, spc, user_input, context, requirements, code,
           ambiguity_info, prompt, response, result, error>>

vars == <<dvars, cvars, svars>>

(***************************************************************************)
(* Python string primitives on token sequences.                            *)
(***************************************************************************)

\* Tokens that str.strip() removes.
Whitespace == {" ", "\n"}

Min(a, b) == IF a < b THEN a ELSE b
Max(a, b) == IF a > b THEN a ELSE b

\* s.find(tok, start): the 0-based position of the first occurrence of the
\* token at or after start, -1 when there is none.
Find(s, tok, start) ==
    LET hits == {i \in 0..(Len(s) - 1) : i >= start /\ s[i + 1] = tok}
    IN  IF hits = {} THEN -1
        ELSE CHOOSE i \in hits : \A j \in hits : i <= j

\* s.rfind(tok): the position of the last occurrence, -1 when there is none.
RFind(s, tok) ==
    LET hits == {i \in 0..(Len(s) - 1) : s[i + 1] = tok}
    IN  IF hits = {} THEN -1
        ELSE CHOOSE i \in hits : \A j \in hits : j <= i

\* tok in s
Contains(s, tok) == \E i \in 1..Len(s) : s[i] = tok

\* s[a:b] with Python's rules: a negative index counts from the end, and
\* both ends are clipped to the string.
Slice(s, a, b) ==
    LET n  == Len(s)
        lo == IF a < 0 THEN Max(n + a, 0) ELSE Min(a, n)
        hi == IF b < 0 THEN Max(n + b, 0) ELSE Min(b, n)
    IN  IF hi <= lo THEN <<>> ELSE SubSeq(s, lo + 1, hi)

\* s[a:]
SliceFrom(s, a) == Slice(s, a, Len(s))

\* s.strip()
Strip(s) ==
    LET keep == {i \in 1..Len(s) : s[i] \notin Whitespace}
    IN  IF keep = {} THEN <<>>
        ELSE LET first == CHOOSE i \in keep : \A j \in keep : i <= j
                 last  == CHOOSE i \in keep : \A j \in keep : j <= i
             IN  SubSeq(s, first, last)

\* Python truthiness of a string.
Truthy(s) == s # <<>>

\* All token sequences of length at most n over the alphabet.
SeqsUpTo(alphabet, n) == UNION {[1..k -> alphabet] : k \in 0..n}

(***************************************************************************)
(* DeploymentAgent._parse_deployment_output                                *)
(***************************************************************************)

REQUIREMENTS       == "[REQUIREMENTS]"
SETUP_INSTRUCTIONS == "[SETUP_INSTRUCTIONS]"
GITHUB_PUSH        == "[GITHUB_PUSH]"
HOSTING_PLATFORMS  == "[HOSTING_PLATFORMS]"

Markers == {REQUIREMENTS, SETUP_INSTRUCTIONS, GITHUB_PUSH, HOSTING_PLATFORMS}

\* The canned defaults, each one piece of text no response is built from.
generate_default_requirements == <<"python-dotenv>=1.0.0 ... pytest>=7.4.0">>
generate_default_setup == <<"1. Install Python 3.10 or higher ...">>
generate_default_github_push == <<"1. Initialize git repository: ...">>
generate_default_hosting_platforms == <<"Recommended Hosting Platforms: ...">>

\* Lines 221-227: the [REQUIREMENTS] section ends at [SETUP_INSTRUCTIONS],
\* or at [GITHUB_PUSH] when there is no [SETUP_INSTRUCTIONS] after it.
extract_requirements(c) ==
    IF Contains(c, REQUIREMENTS)
    THEN LET req_start == Find(c, REQUIREMENTS, 0) + 1
             end1      == Find(c, SETUP_INSTRUCTIONS, req_start)
             req_end   == IF end1 = -1 THEN Find(c, GITHUB_PUSH, req_start)
                          ELSE end1
         IN  IF req_end > req_start
             THEN Strip(Slice(c, req_start, req_end)) ELSE <<>>
    ELSE <<>>

\* Lines 229-233.
extract_setup_instructions(c) ==
    IF Contains(c, SETUP_INSTRUCTIONS)
    THEN LET setup_start == Find(c, SETUP_INSTRUCTIONS, 0) + 1
             setup_end   == Find(c, GITHUB_PUSH, setup_start)
         IN  IF setup_end > setup_start
             THEN Strip(Slice(c, setup_start, setup_end)) ELSE <<>>
    ELSE <<>>

\* Lines 235-239.
extract_github_push(c) ==
    IF Contains(c, GITHUB_PUSH)
    THEN LET github_start == Find(c, GITHUB_PUSH, 0) + 1
             github_end   == Find(c, HOSTING_PLATFORMS, github_start)
         IN  IF github_end > github_start
             THEN Strip(Slice(c, github_start, github_end)) ELSE <<>>
    ELSE <<>>

\* Lines 241-243.
extract_hosting_platforms(c) ==
    IF Contains(c, HOSTING_PLATFORMS)
    THEN Strip(SliceFrom(c, Find(c, HOSTING_PLATFORMS, 0) + 1))
    ELSE <<>>

\* The backfill left out: an empty section stays empty.
backfill_missing(field, default) == field

\* Lines 245-255: `if not field: field = default`.
backfill(field, default) == IF Truthy(field) THEN field ELSE default

parse_deployment_output(c) ==
    [requirements       |-> backfill(extract_requirements(c),
                                     generate_default_requirements),
     setup_instructions |-> backfill(extract_setup_instructions(c),
                                     generate_default_setup),
     github_push        |-> backfill(extract_github_push(c),
                                     generate_default_github_push),
     hosting_platforms  |-> backfill(extract_hosting_platforms(c),
                                     generate_default_hosting_platforms)]

\* Nothing returned yet.
NoConfig == [none |-> TRUE]

(***************************************************************************)
(* Python values that may be None: the local `content`, a response.        *)
(***************************************************************************)

PyNone     == [none |-> TRUE, text |-> <<>>]
PyStr(t)   == [none |-> FALSE, text |-> t]

\* `not v` for a value that is None or a string.
Falsy(v) == v.none \/ v.text = <<>>

\* What generate_reply gives back: None, a plain string, or a mapping that
\* may hold "content" (a string or null) or not hold it at all.
RNone       == [kind |-> "None", content |-> PyNone]
RStr(t)     == [kind |-> "str", content |-> PyStr(t)]
RDict(t)    == [kind |-> "dict", content |-> PyStr(t)]
RDictNull   == [kind |-> "dict", content |-> PyNone]
RDictAbsent == [kind |-> "dict_without_content", content |-> PyNone]

\* The call raised instead of returning.
Raises == [kind |-> "raise", content |-> PyNone]

\* response.get("content", "") if isinstance(response, dict) else str(response)
content_of(r) ==
    IF r.kind = "dict_without_content" THEN PyStr(<<>>)
    ELSE r.content

\* Not there (yet): an input the running stage does not take, a value not
\* computed so far.
Absent == [absent |-> TRUE]

\* The other stages are not running.
StagesIdle ==
    /\ stage = "none"
    /\ spc = "idle"
    /\ user_input = <<>>
    /\ context = Absent
    /\ requirements = Absent
    /\ code = <<>>
    /\ ambiguity_info = Absent
    /\ prompt = <<>>
    /\ response = Absent
    /\ result = Absent
    /\ error = "None"

\* The Deployment stage is not running.
DeployIdle ==
    /\ dpc = "idle"
    /\ attempt = 0
    /\ content = PyNone
    /\ last_error = "None"
    /\ config = NoConfig

(***************************************************************************)
(* The parser as a function of its input: Init draws the content, the one  *)
(* action applies the parser.                                              *)
(***************************************************************************)

\* Longest content given to the parser.
MaxContent == 6

DeployAlphabet == Markers \cup {"x", " "}

\* A response that is a JSON mapping of the four schema keys, bare and
\* inside prose; each member is one token of text.
DeployJsonObject ==
    <<"{", "'requirements': 'flask'", "'setup_instructions': 'pip install'",
      "'github_push': 'git push'", "'hosting_platforms': 'Heroku'", "}">>

DeployJsonContents == {DeployJsonObject, <<"x", " ">> \o DeployJsonObject}

InitParse ==
    /\ dpc = "parse"
    /\ content \in {PyStr(t) : t \in SeqsUpTo(DeployAlphabet, MaxContent)
                                      \cup DeployJsonContents}
    /\ config = NoConfig
    /\ attempt = 0
    /\ last_error = "None"
    /\ calls = 0
    /\ sleeps = <<>>
    /\ outcomes = <<>>
    /\ StagesIdle

ParseOutput ==
    /\ dpc = "parse"
    /\ config' = parse_deployment_output(content.text)
    /\ dpc' = "returned"
    /\ UNCHANGED <<attempt, content, last_error, cvars, svars>>

NextParse == ParseOutput

SpecParse == InitParse /\ [][NextParse]_vars

(***************************************************************************)
(* Claims about the labeled-section parser (checked under SpecParse).      *)
(***************************************************************************)

\* The text of a section as the response gives it: from just after the
\* marker's first occurrence to position `to`, trimmed.
SectionText(c, marker, to) == Strip(Slice(c, Find(c, marker, 0) + 1, to))

Occurrences(c, tok) == Cardinality({i \in 1..Len(c) : c[i] = tok})

\* Scenario C: [REQUIREMENTS], [SETUP_INSTRUCTIONS] and [GITHUB_PUSH] once
\* each, in that order, each followed by non-blank text, and no
\* [HOSTING_PLATFORMS].
ScenarioC(c) ==
    /\ Occurrences(c, REQUIREMENTS) = 1
    /\ Occurrences(c, SETUP_INSTRUCTIONS) = 1
    /\ Occurrences(c, GITHUB_PUSH) = 1
    /\ Occurrences(c, HOSTING_PLATFORMS) = 0
    /\ Find(c, REQUIREMENTS, 0) < Find(c, SETUP_INSTRUCTIONS, 0)
    /\ Find(c, SETUP_INSTRUCTIONS, 0) < Find(c, GITHUB_PUSH, 0)
    /\ SectionText(c, REQUIREMENTS, Find(c, SETUP_INSTRUCTIONS, 0)) # <<>>
    /\ SectionText(c, SETUP_INSTRUCTIONS, Find(c, GITHUB_PUSH, 0)) # <<>>
    /\ SectionText(c, GITHUB_PUSH, Len(c)) # <<>>

\* C1: for a response with the first three markers in order, each followed
\* by non-blank text, and no [HOSTING_PLATFORMS] marker, the parser returns
\* the default hosting_platforms and the three sections' own text.
C1_MissingHostingKeepsOtherSections ==
    (dpc = "returned" /\ ScenarioC(content.text)) =>
        LET c == content.text IN
        /\ config.hosting_platforms = generate_default_hosting_platforms
        /\ config.requirements =
               SectionText(c, REQUIREMENTS, Find(c, SETUP_INSTRUCTIONS, 0))
        /\ config.setup_instructions =
               SectionText(c, SETUP_INSTRUCTIONS, Find(c, GITHUB_PUSH, 0))
        /\ config.github_push = SectionText(c, GITHUB_PUSH, Len(c))

\* The field is trimmed, non-blank text of the response that starts right
\* after the first occurrence of the field's marker.
TakenFromResponse(field, c, marker) ==
    /\ Contains(c, marker)
    /\ \E to \in 0..Len(c) : field = SectionText(c, marker, to)
    /\ field # <<>>

\* C2: whatever the content, the parser returns a record with exactly the
\* four keys, each a non-empty string: text extracted from the response
\* after the field's marker, or else the field's canned default.
C2_EveryFieldPopulated ==
    dpc = "returned" =>
        /\ DOMAIN config = {"requirements", "setup_instructions",
                            "github_push", "hosting_platforms"}
        /\ \/ config.requirements = generate_default_requirements
           \/ TakenFromResponse(config.requirements, content.text,
                                REQUIREMENTS)
        /\ \/ config.setup_instructions = generate_default_setup
           \/ TakenFromResponse(config.setup_instructions, content.text,
                                SETUP_INSTRUCTIONS)
        /\ \/ config.github_push = generate_default_github_push
           \/ TakenFromResponse(config.github_push, content.text, GITHUB_PUSH)
        /\ \/ config.hosting_platforms = generate_default_hosting_platforms
           \/ TakenFromResponse(config.hosting_platforms, content.text,
                                HOSTING_PLATFORMS)
        /\ \A k \in DOMAIN config : config[k] # <<>>

\* Markers out of order with an empty section: one field extracted, the
\* others backfilled.
C2_Witness ==
    /\ dpc = "returned"
    /\ content.text = <<HOSTING_PLATFORMS, "x", REQUIREMENTS,
                        SETUP_INSTRUCTIONS>>
    /\ config.hosting_platforms = <<"x", REQUIREMENTS, SETUP_INSTRUCTIONS>>
    /\ config.requirements = generate_default_requirements
    /\ config.github_push = generate_default_github_push

(***************************************************************************)
(* DeploymentAgent.generate_deployment_config: the retry loop.             *)
(***************************************************************************)

max_retries == 3

RECURSIVE Pow2(_)
Pow2(n) == IF n = 0 THEN 1 ELSE 2 * Pow2(n - 1)

\* A linear backoff in place of the exponential one.
wait_time_linear(a) == 2 * a

\* wait_time = 2 ** attempt
wait_time(a) == Pow2(a)

\* The retry test off by one: the last attempt sleeps too.
attempts_remain_off_by_one(a) == a < max_retries

\* if attempt < max_retries - 1
attempts_remain(a) == a < max_retries - 1

\* if not content or not content.strip()
blank(c) == Falsy(c) \/ ~Truthy(Strip(c.text))

\* What the completion service may do at one call of the Deployment stage.
OkContent1 == <<REQUIREMENTS, "x", SETUP_INSTRUCTIONS, "y", GITHUB_PUSH, "x",
                HOSTING_PLATFORMS, "y">>
OkContent2 == <<"x", " ", "y">>

DeployOutcomes ==
    {Raises, RNone, RStr(<<>>), RStr(<<" ">>), RDictAbsent, RDictNull,
     RDict(<<"\n">>), RStr(OkContent1), RDict(OkContent2)}

InitDeploy ==
    /\ dpc = "loop"
    /\ attempt = 0
    /\ content = PyNone
    /\ last_error = "None"
    /\ calls = 0
    /\ sleeps = <<>>
    /\ outcomes = <<>>
    /\ config = NoConfig
    /\ StagesIdle

\* The failure path shared by the three failure branches (lines 170-175,
\* 180-185 and 189-196): sleep and continue while attempts remain; on the
\* last attempt the ValueError raised inside the try is caught by
\* `except Exception`, which finds no attempt left and raises.
FailedAttempt(err) ==
    IF attempts_remain(attempt)
    THEN /\ sleeps' = Append(sleeps, wait_time(attempt))
         /\ attempt' = attempt + 1
         /\ last_error' = err
         /\ dpc' = "loop"
    ELSE /\ last_error' = "ValueError"
         /\ dpc' = "raised"
         /\ UNCHANGED <<sleeps, attempt>>

\* One pass of `for attempt in range(max_retries)`, lines 163-196, when the
\* completion service does o.
DeployReply(o) ==
    /\ calls' = calls + 1
    /\ outcomes' = Append(outcomes, o)
    /\ config' = config
    /\ IF o.kind = "raise"
       THEN /\ FailedAttempt("Exception")
            /\ content' = content
       ELSE IF o.kind = "None"
       THEN \* `continue` leaves last_error as it was
            /\ FailedAttempt(last_error)
            /\ content' = content
       ELSE /\ content' = content_of(o)
            /\ IF blank(content_of(o))
               THEN FailedAttempt(last_error)
               ELSE /\ dpc' = "after_loop"   \* break
                    /\ UNCHANGED <<sleeps, attempt, last_error>>

\* One pass of the loop, over everything the service may do.
DeployAttempt ==
    /\ dpc = "loop"
    /\ attempt < max_retries
    /\ UNCHANGED svars
    /\ \E o \in DeployOutcomes : DeployReply(o)

\* Lines 198-204, reached by `break` or by the loop running out.
DeployFinish ==
    /\ \/ dpc = "after_loop"
       \/ dpc = "loop" /\ attempt >= max_retries
    /\ IF Falsy(content)
       THEN /\ dpc' = "raised"
            /\ config' = config
       ELSE /\ dpc' = "returned"
            /\ config' = parse_deployment_output(content.text)
    /\ UNCHANGED <<attempt, content, last_error, cvars, svars>>

NextDeploy == DeployAttempt \/ DeployFinish

SpecDeploy == InitDeploy /\ [][NextDeploy]_vars

(***************************************************************************)
(* Claims about the retry loop (checked under SpecDeploy).                 *)
(***************************************************************************)

\* An attempt failed: the call raised, returned None, or returned content
\* that is null, empty or whitespace only.
AttemptFailed(o) ==
    \/ o.kind \in {"raise", "None"}
    \/ o.kind = "dict_without_content"
    \/ o.content.none
    \/ \A i \in 1..Len(o.content.text) : o.content.text[i] \in Whitespace

AllFailed(os) == \A i \in 1..Len(os) : AttemptFailed(os[i])

\* 2^0, ..., 2^(k-1)
BackoffSleeps(k) ==
    CASE k = 0 -> <<>>
      [] k = 1 -> <<1>>
      [] k = 2 -> <<1, 2>>
      [] OTHER -> <<"more than two sleeps">>

\* C6: when attempts 0..k-1 fail (k <= 2) and attempt k returns non-blank
\* content, the stage leaves the loop at once, has made exactly k+1 calls
\* and slept exactly 1, 2, .. 2^(k-1), and returns the configuration parsed
\* from attempt k's content; nothing is called or slept after the success.
C6_RetryThenSuccess ==
    LET n == Len(outcomes) IN
    /\ (n > 0 /\ ~AttemptFailed(outcomes[n])) =>
           /\ dpc \in {"after_loop", "returned"}
           /\ AllFailed(SubSeq(outcomes, 1, n - 1))
           /\ n - 1 <= 2
           /\ calls = n
           /\ sleeps = BackoffSleeps(n - 1)
    /\ dpc = "after_loop" => n > 0 /\ ~AttemptFailed(outcomes[n])
    /\ dpc = "returned" =>
           /\ n > 0 /\ ~AttemptFailed(outcomes[n])
           /\ config = parse_deployment_output(outcomes[n].content.text)

\* Two failures of different kinds, then a success.
C6_Witness ==
    /\ dpc = "returned"
    /\ Len(outcomes) = 3
    /\ outcomes[1] = Raises
    /\ outcomes[2] = RStr(<<" ">>)
    /\ outcomes[3] = RStr(OkContent1)
    /\ sleeps = <<1, 2>>
    /\ config.requirements = <<"x">>

\* C7: when every attempt fails the stage raises after exactly max_retries
\* calls, having slept 1 then 2 and not after the last failure, and returns
\* no configuration; it raises in no other case and never calls a 4th time.
C7_ExhaustedRetriesRaise ==
    LET n == Len(outcomes) IN
    /\ calls = n
    /\ calls <= max_retries
    /\ (n = max_retries /\ AllFailed(outcomes)) =>
           /\ dpc = "raised"
           /\ last_error = "ValueError"
           /\ sleeps = <<1, 2>>
           /\ config = NoConfig
    /\ AllFailed(outcomes) => dpc # "returned" /\ config = NoConfig
    /\ dpc = "raised" => n = max_retries /\ AllFailed(outcomes)

\* A mixture of failures: an exception, a None response, blank content.
C7_Witness ==
    /\ dpc = "raised"
    /\ outcomes = <<Raises, RNone, RDict(<<"\n">>)>>
    /\ calls = 3
    /\ sleeps = <<1, 2>>

(***************************************************************************)
(* RequirementAnalysisAgent._detect_ambiguity                              *)
(*                                                                         *)
(* The user's text is a sequence of words and separators; two words with   *)
(* no separator between them form one longer word, as in the real string.  *)
(***************************************************************************)

\* vague_terms, lines 190-198: each pattern is \b(alt|alt|...)\b, an
\* alternative being the tokens it is written with.
vague_terms ==
    << {<<"user", "-", "friendly">>, <<"user", " ", "friendly">>},
       {<<"fast">>, <<"quick">>, <<"quickly">>},
       {<<"good">>, <<"better">>, <<"best">>},
       {<<"easy">>, <<"simple">>, <<"easily">>},
       {<<"nice">>, <<"nice", "-", "looking">>, <<"pretty">>},
       {<<"some">>, <<"various">>, <<"multiple">>, <<"several">>},
       {<<"should">>, <<"could">>, <<"might">>, <<"may">>} >>

\* missing_patterns, lines 200-205.
missing_patterns ==
    << {<<"input">>, <<"output">>},
       {<<"error">>, <<"exception">>, <<"handle">>},
       {<<"platform">>, <<"os">>, <<"operating", " ", "system">>},
       {<<"performance">>, <<"speed">>, <<"time">>} >>

\* A neutral word, 38 characters long.
Filler38 == "a_neutral_word_that_has_38_characters_"

\* Tokens that are not word characters: a \b lies between them and a word.
NonWord == Whitespace \cup {"-"}

\* len() of one token.
TokenLen(tok) ==
    CASE tok \in NonWord -> 1
      [] tok \in {"fast", "Good", "good"} -> 4
      [] tok \in {"input", "error"} -> 5
      [] tok = "should" -> 6
      [] tok = Filler38 -> 38

\* len(text)
RECURSIVE PyLen(_)
PyLen(text) ==
    IF text = <<>> THEN 0 ELSE TokenLen(Head(text)) + PyLen(Tail(text))

\* re.IGNORECASE
Lower(tok) == IF tok = "Good" THEN "good" ELSE tok

\* One alternative matches at position i: its tokens are there, whatever
\* their case, with a word boundary on both sides.
MatchesAt(alt, text, i) ==
    /\ i + Len(alt) - 1 <= Len(text)
    /\ \A k \in 1..Len(alt) : Lower(text[i + k - 1]) = alt[k]
    /\ i = 1 \/ text[i - 1] \in NonWord
    /\ i + Len(alt) - 1 = Len(text) \/ text[i + Len(alt)] \in NonWord

\* re.search(pattern, user_input, re.IGNORECASE)
re_search(pattern, text) ==
    \E alt \in pattern : \E i \in 1..Len(text) : MatchesAt(alt, text, i)

\* Occurrences counted in place of patterns: a repeated word counts twice.
vague_count_occurrences(text) ==
    LET Hits(p) == Cardinality({i \in 1..Len(text) :
                       \E alt \in vague_terms[p] : MatchesAt(alt, text, i)})
        RECURSIVE Sum(_)
        Sum(p) == IF p = 0 THEN 0 ELSE Hits(p) + Sum(p - 1)
    IN  Sum(Len(vague_terms))

\* Line 207.
vague_count(text) ==
    Cardinality({p \in DOMAIN vague_terms : re_search(vague_terms[p], text)})

\* Line 208.
missing_count(text) ==
    Cardinality({p \in DOMAIN missing_patterns :
                     ~re_search(missing_patterns[p], text)})

\* The length test off by one.
is_ambiguous_off_by_one(text) ==
    vague_count(text) > 2 \/ missing_count(text) > 2
        \/ PyLen(Strip(text)) <= 50

\* Line 210.
is_ambiguous(text) ==
    vague_count(text) > 2 \/ missing_count(text) > 2
        \/ PyLen(Strip(text)) < 50

\* Lines 212-217.
detect_ambiguity(text) ==
    [is_ambiguous           |-> is_ambiguous(text),
     vague_terms_found      |-> vague_count(text),
     missing_specifications |-> missing_count(text),
     input_length           |-> PyLen(text)]

(***************************************************************************)
(* The detector as a function of its input.                                *)
(***************************************************************************)

\* Longest user text given to the detector, in tokens.
MaxWords == 5

DetectAlphabet ==
    {" ", "fast", "Good", "should", "input", "error", Filler38}

InitDetect ==
    /\ stage = "detect"
    /\ spc = "start"
    /\ user_input \in SeqsUpTo(DetectAlphabet, MaxWords)
    /\ context = Absent
    /\ requirements = Absent
    /\ code = <<>>
    /\ ambiguity_info = Absent
    /\ prompt = <<>>
    /\ response = Absent
    /\ result = Absent
    /\ error = "None"
    /\ calls = 0
    /\ sleeps = <<>>
    /\ outcomes = <<>>
    /\ DeployIdle

DetectAmbiguity ==
    /\ stage = "detect"
    /\ spc = "start"
    /\ ambiguity_info' = detect_ambiguity(user_input)
    /\ spc' = "returned"
    /\ UNCHANGED <<dvars, cvars, stage, user_input, context, requirements,
                   code, prompt, response, result, error>>

NextDetect == DetectAmbiguity

SpecDetect == InitDetect /\ [][NextDetect]_vars

(***************************************************************************)
(* Claims about the detector (checked under SpecDetect).                   *)
(***************************************************************************)

\* The number of characters left after trimming, counted on the input.
StrippedLength(text) ==
    LET solid == {i \in 1..Len(text) : text[i] \notin Whitespace}
    IN  IF solid = {} THEN 0
        ELSE LET lo == CHOOSE i \in solid : \A j \in solid : i <= j
                 hi == CHOOSE i \in solid : \A j \in solid : j <= i
             IN  PyLen(SubSeq(text, lo, hi))

\* C10: the verdict is ambiguous exactly when it reports more than 2 vague
\* terms, or more than 2 missing specifications, or the trimmed text has
\* fewer than 50 characters; so every text shorter than 50 is ambiguous.
C10_AmbiguityRule ==
    (stage = "detect" /\ spc = "returned") =>
        /\ ambiguity_info.is_ambiguous <=>
               \/ ambiguity_info.vague_terms_found > 2
               \/ ambiguity_info.missing_specifications > 2
               \/ StrippedLength(user_input) < 50
        /\ PyLen(user_input) < 50 => ambiguity_info.is_ambiguous

\* A text of exactly 50 characters naming input and error, with no vague
\* word: none of the three conditions holds and the verdict says so.
C10_Witness ==
    /\ stage = "detect"
    /\ spc = "returned"
    /\ user_input = <<"input", " ", "error", " ", Filler38>>
    /\ ambiguity_info.missing_specifications = 2
    /\ ambiguity_info.vague_terms_found = 0
    /\ ~ambiguity_info.is_ambiguous

\* A word of the text starts at position i / ends at position j.
StartsWord(text, i) ==
    text[i] \notin NonWord /\ (i = 1 \/ text[i - 1] \in NonWord)

EndsWord(text, j) ==
    text[j] \notin NonWord /\ (j = Len(text) \/ text[j + 1] \in NonWord)

\* A phrase (one word, or words with single separators between them) is
\* written somewhere in the text, in any case, as whole words.
Mentions(text, phrase) ==
    \E i \in 1..(Len(text) - Len(phrase) + 1) :
        /\ StartsWord(text, i)
        /\ EndsWord(text, i + Len(phrase) - 1)
        /\ \A k \in 1..Len(phrase) : Lower(text[i + k - 1]) = phrase[k]

\* The groups of a pattern list with a phrase the text mentions.
GroupsMentioned(groups, text) ==
    {g \in DOMAIN groups : \E phrase \in groups[g] : Mentions(text, phrase)}

\* C11: the detector returns for every input, the empty one too, and its
\* counts are counts of patterns: vague_terms_found is the number of the 7
\* vague groups mentioned at least once (0..7, a repeated vague word
\* counted once), missing_specifications the number of the 4 expected
\* topics mentioned nowhere (0..4, and 4 for the empty input), and
\* input_length is not negative.
C11_DetectorCountsPatterns ==
    (stage = "detect" /\ spc = "returned") =>
        /\ error = "None"
        /\ DOMAIN ambiguity_info =
               {"is_ambiguous", "vague_terms_found",
                "missing_specifications", "input_length"}
        /\ ambiguity_info.vague_terms_found \in 0..7
        /\ ambiguity_info.vague_terms_found =
               Cardinality(GroupsMentioned(vague_terms, user_input))
        /\ ambiguity_info.missing_specifications \in 0..4
        /\ ambiguity_info.missing_specifications =
               4 - Cardinality(GroupsMentioned(missing_patterns, user_input))
        /\ user_input = <<>> => ambiguity_info.missing_specifications = 4
        /\ ambiguity_info.input_length >= 0

\* A vague word written twice, and another once: two patterns, not three
\* occurrences.
C11_Witness ==
    /\ stage = "detect"
    /\ spc = "returned"
    /\ user_input = <<"fast", " ", "Good", " ", "fast">>
    /\ ambiguity_info.vague_terms_found = 2
    /\ ambiguity_info.missing_specifications = 4

(***************************************************************************)
(* JSON values, and json.loads / json.dumps on token text.                 *)
(*                                                                         *)
(* In a response a JSON object is written "{", its members, "}".  A member *)
(* token is the text of one member, key and value, with its separating     *)
(* comma; its value is a scalar or a list of strings.  "t" is a character  *)
(* of prose.                                                               *)
(***************************************************************************)

JNull        == [t |-> "null"]
JBool(b)     == [t |-> "bool", b |-> b]
JInt(n)      == [t |-> "int", n |-> n]
JStr(text)   == [t |-> "str", s |-> text]
JList(items) == [t |-> "list", items |-> items]

\* The keys of the record analyze returns, lines 165-173.
ListKeys ==
    {"functional_requirements", "non_functional_requirements", "assumptions",
     "constraints", "clarifying_questions"}

SchemaKeys == ListKeys \cup {"ambiguity_detected", "ambiguity_notes"}

SchemaKeyOrder ==
    <<"functional_requirements", "non_functional_requirements",
      "assumptions", "constraints", "clarifying_questions",
      "ambiguity_detected", "ambiguity_notes">>

\* The member texts responses are written with, and what each one says.
MemberTable ==
    {[tok |-> "'functional_requirements': ['Add two integers']",
      key |-> "functional_requirements",
      value |-> JList(<< <<"Add two integers">> >>)],
     [tok |-> "'functional_requirements': null",
      key |-> "functional_requirements", value |-> JNull],
     [tok |-> "'non_functional_requirements': ['Respond quickly']",
      key |-> "non_functional_requirements",
      value |-> JList(<< <<"Respond quickly">> >>)],
     [tok |-> "'non_functional_requirements': 'fast'",
      key |-> "non_functional_requirements", value |-> JStr(<<"fast">>)],
     [tok |-> "'assumptions': ['Inputs are integers']",
      key |-> "assumptions",
      value |-> JList(<< <<"Inputs are integers">> >>)],
     [tok |-> "'constraints': ['Python 3.10']",
      key |-> "constraints", value |-> JList(<< <<"Python 3.10">> >>)],
     [tok |-> "'clarifying_questions': ['Which platform?']",
      key |-> "clarifying_questions",
      value |-> JList(<< <<"Which platform?">> >>)],
     [tok |-> "'ambiguity_detected': true",
      key |-> "ambiguity_detected", value |-> JBool(TRUE)],
     [tok |-> "'ambiguity_detected': false",
      key |-> "ambiguity_detected", value |-> JBool(FALSE)],
     [tok |-> "'ambiguity_notes': 'note'",
      key |-> "ambiguity_notes", value |-> JStr(<<"note">>)],
     [tok |-> "'extra': 1", key |-> "extra", value |-> JInt(1)]}

MemberTokens == {m.tok : m \in MemberTable}

\* Reading one member.
Member(tok) == CHOOSE m \in MemberTable : m.tok = tok

\* Writing one member.
MemberText(k, v) == (CHOOSE m \in MemberTable : m.key = k /\ m.value = v).tok

\* json.loads(json_str): an object when the text is "{", members, "}" and
\* nothing else (a later member of the same key replaces an earlier one),
\* a JSONDecodeError otherwise.
json_loads(json_str) ==
    LET n     == Len(json_str)
        valid == /\ n >= 2
                 /\ json_str[1] = "{"
                 /\ json_str[n] = "}"
                 /\ \A i \in 2..(n - 1) : json_str[i] \in MemberTokens
        keys  == {Member(json_str[i]).key : i \in 2..(n - 1)}
        last(k) == CHOOSE i \in 2..(n - 1) :
                       /\ Member(json_str[i]).key = k
                       /\ \A j \in 2..(n - 1) :
                              Member(json_str[j]).key = k => j <= i
    IN  IF valid
        THEN [ok |-> TRUE,
              obj |-> [k \in keys |-> Member(json_str[last(k)]).value]]
        ELSE [ok |-> FALSE, obj |-> <<>>]

\* json.dumps of a record holding every schema key.
json_dumps(r) ==
    <<"{">> \o [i \in 1..Len(SchemaKeyOrder) |->
                   MemberText(SchemaKeyOrder[i], r[SchemaKeyOrder[i]])]
            \o <<"}">>

\* d.get(k, default) on a mapping.
Get(d, k, default) == IF k \in DOMAIN d THEN d[k] ELSE default

(***************************************************************************)
(* RequirementAnalysisAgent.analyze: from the response to the result.      *)
(***************************************************************************)

\* The defaults of lines 166-172.
DefaultValue(k) ==
    CASE k \in ListKeys -> JList(<<>>)
      [] k = "ambiguity_detected" -> JBool(FALSE)
      [] k = "ambiguity_notes" -> JStr(<<>>)

\* A fallback that drops the raw text and reports no ambiguity.
parse_fallback_empty(c) == [k \in SchemaKeys |-> DefaultValue(k)]

\* _parse_fallback, lines 219-229.
parse_fallback(c) ==
    [k \in SchemaKeys |->
        CASE k = "functional_requirements" -> JList(<<c>>)
          [] k = "assumptions" ->
                 JList(<< <<"Could not parse structured requirements - using raw input">> >>)
          [] k = "ambiguity_detected" -> JBool(TRUE)
          [] k = "ambiguity_notes" ->
                 JStr(<<"JSON parsing failed - requirements may be incomplete">>)
          [] OTHER -> JList(<<>>)]

\* The end of the JSON text taken at the last "}" itself.
json_end_exclusive(c) == RFind(c, "}")

\* json_end = content.rfind("}") + 1
json_end(c) == RFind(c, "}") + 1

\* json_start = content.find("{")
json_start(c) == Find(c, "{", 0)

\* Lines 152-162: the mapping `requirements`.
extract_requirements_mapping(c) ==
    IF json_start(c) >= 0 /\ json_end(c) > json_start(c)
    THEN LET loaded == json_loads(Slice(c, json_start(c), json_end(c)))
         IN  IF loaded.ok THEN loaded.obj ELSE parse_fallback(c)
    ELSE parse_fallback(c)

\* Lines 165-173: the record `result`.
requirement_set(c) ==
    [k \in SchemaKeys |->
        Get(extract_requirements_mapping(c), k, DefaultValue(k))]

(***************************************************************************)
(* RequirementAnalysisAgent.analyze: the prompt.                           *)
(***************************************************************************)

\* What an expression gives: a text, or the exception it raised.
Value(text)   == [raised |-> "None", text |-> text]
Raised(exc)   == [raised |-> exc, text |-> <<>>]

\* ', '.join(items)
RECURSIVE Join(_)
Join(items) ==
    IF items = <<>> THEN <<>>
    ELSE IF Len(items) = 1 THEN items[1]
    ELSE items[1] \o <<", ">> \o Join(Tail(items))

\* Characters of prior code kept in the summary, line 106.
SummaryLimit == 200

\* Functional requirements named in the summary, line 103.
SummaryRequirements == 3

\* The prior code passed on whole.
code_summary_untruncated(prev_code) == prev_code

\* prev_code[:200] + "..." if len(prev_code) > 200 else prev_code
\* (code is text of one-character tokens)
code_summary(prev_code) ==
    IF Len(prev_code) > SummaryLimit
    THEN Slice(prev_code, 0, SummaryLimit) \o <<"...">>
    ELSE prev_code

\* Line 103: ', '.join(prev_reqs.get('functional_requirements', [])[:3]);
\* None cannot be sliced, a number or a boolean neither.
previous_requirements_line(prev_reqs) ==
    LET fr == Get(prev_reqs, "functional_requirements", JList(<<>>))
    IN  IF fr.t = "list"
        THEN Value(<<"Previous functional requirements: ">>
                   \o Join(Slice(fr.items, 0, SummaryRequirements))
                   \o <<"\n">>)
        ELSE IF fr.t = "str"
        THEN Value(<<"Previous functional requirements: ">>
                   \o Join([i \in 1..Len(Slice(fr.s, 0, SummaryRequirements))
                               |-> <<fr.s[i]>>])
                   \o <<"\n">>)
        ELSE Raised("TypeError")

\* Lines 100-107: the part of the section that renders previous_results.
previous_results_lines(previous_results) ==
    IF previous_results = Absent THEN Value(<<>>)
    ELSE LET prev_reqs == previous_results.requirements
             prev_code == previous_results.code
             reqs_line == IF prev_reqs = Absent THEN Value(<<>>)
                          ELSE previous_requirements_line(prev_reqs)
             code_line == IF Truthy(prev_code)
                          THEN <<"Previous code summary: ">>
                               \o code_summary(prev_code) \o <<"\n">>
                          ELSE <<>>
         IN  IF reqs_line.raised # "None" THEN reqs_line
             ELSE Value(reqs_line.text \o code_line)

\* The oldest prompt in place of the latest.
first_prompt(prompts) == prompts[1]

\* Line 99: previous_prompts[-1]
last_prompt(prompts) == prompts[Len(prompts)]

\* The section rendered whether or not the context is active.
context_section_ignoring_active(ctx) ==
    IF ctx # Absent
       /\ (ctx.previous_prompts # <<>> \/ ctx.previous_results # Absent)
    THEN LET head    == IF ctx.previous_prompts # <<>>
                        THEN <<"Previous prompt(s): ">>
                             \o last_prompt(ctx.previous_prompts) \o <<"\n">>
                        ELSE <<>>
             results == previous_results_lines(ctx.previous_results)
         IN  IF results.raised # "None" THEN results
             ELSE Value(<<"\n\nPREVIOUS CONTEXT:\n">> \o head \o results.text
                        \o <<"\nThis is a follow-up request. ...\n">>)
    ELSE Value(<<>>)

\* Lines 91-108: context_section.
context_section(ctx) ==
    IF ctx # Absent /\ ctx.is_active
       /\ (ctx.previous_prompts # <<>> \/ ctx.previous_results # Absent)
    THEN LET prompts == ctx.previous_prompts
             head    == IF prompts # <<>>
                        THEN <<"Previous prompt(s): ">>
                             \o last_prompt(prompts) \o <<"\n">>
                        ELSE <<>>
             results == previous_results_lines(ctx.previous_results)
         IN  IF results.raised # "None" THEN results
             ELSE Value(<<"\n\nPREVIOUS CONTEXT:\n">> \o head \o results.text
                        \o <<"\nThis is a follow-up request. ...\n">>)
    ELSE Value(<<>>)

\* Lines 110-137: the prompt around the context section and the input.
analyze_prompt(section, input) ==
    <<"Analyze the following user requirement ...\n">> \o section
        \o <<"\nUSER REQUIREMENT:\n">> \o input
        \o <<"\n\nTASK: ... OUTPUT FORMAT: ... IMPORTANT: ...">>

(***************************************************************************)
(* _format_requirements of the Documentation, Test and Deployment stages.  *)
(***************************************************************************)

\* for req in <value>: text += f"- {req}\n"
RECURSIVE BulletLines(_)
BulletLines(items) ==
    IF items = <<>> THEN <<>>
    ELSE <<"- ">> \o Head(items) \o <<"\n">> \o BulletLines(Tail(items))

\* Iterating the value of a list field: a list gives its items, a string
\* its characters; None, a number or a boolean cannot be iterated.
bullets(v) ==
    IF v.t = "list" THEN Value(BulletLines(v.items))
    ELSE IF v.t = "str"
    THEN Value(BulletLines([i \in 1..Len(v.s) |-> <<v.s[i]>>]))
    ELSE Raised("TypeError")

\* DocumentationAgent._format_requirements (lines 205-215) and
\* TestGenerationAgent._format_requirements (lines 214-224), the same text.
format_requirements(reqs) ==
    LET functional == bullets(Get(reqs, "functional_requirements",
                                  JList(<<>>)))
        non_functional == bullets(Get(reqs, "non_functional_requirements",
                                      JList(<<>>)))
    IN  IF functional.raised # "None" THEN functional
        ELSE IF non_functional.raised # "None" THEN non_functional
        ELSE Value(<<"FUNCTIONAL REQUIREMENTS:\n">> \o functional.text
                   \o <<"\nNON-FUNCTIONAL REQUIREMENTS:\n">>
                   \o non_functional.text)

\* DeploymentAgent._format_requirements, lines 206-212.
deployment_format_requirements(reqs) ==
    LET functional == bullets(Get(reqs, "functional_requirements",
                                  JList(<<>>)))
    IN  IF functional.raised # "None" THEN functional
        ELSE Value(<<"FUNCTIONAL REQUIREMENTS:\n">> \o functional.text)

(***************************************************************************)
(* TestGenerationAgent._extract_code_blocks                                *)
(***************************************************************************)

\* The opening fence of a Python block (three backticks and "python") and
\* the plain fence (three backticks).
PythonFence == "[fence]python"
Fence       == "[fence]"

\* content.find(fence, start): the Python fence begins with a fence too.
FindFence(c, start) ==
    LET hits == {i \in 0..(Len(c) - 1) :
                     i >= start /\ c[i + 1] \in {Fence, PythonFence}}
    IN  IF hits = {} THEN -1
        ELSE CHOOSE i \in hits : \A j \in hits : i <= j

\* Lines 304-314.  A fence is one token, so the position after it is the
\* next token; every other token is one character, so that content[a:-1]
\* drops one character.
extract_code_blocks(c) ==
    IF Contains(c, PythonFence)
    THEN LET start == Find(c, PythonFence, 0) + 1
             end   == FindFence(c, start)
         IN  Strip(Slice(c, start, end))
    ELSE IF Contains(c, Fence)
    THEN LET start == FindFence(c, 0) + 1
             end   == FindFence(c, start)
         IN  Strip(Slice(c, start, end))
    ELSE Strip(c)

\* TestGenerationAgent._identify_modules for code that defines no class, no
\* function and names no file: lines 299-302.
identify_modules(c) ==
    <<"Single module detected (no explicit classes or multiple files found)">>

(***************************************************************************)
(* The Requirement, Documentation and Test stages: one call each.          *)
(***************************************************************************)

\* Longest free-form requirement response, in tokens.
MaxJson == 4

\* Longest free-form test response, in tokens.
MaxTestContent == 4

JsonAlphabet ==
    {"{", "}", "t",
     "'functional_requirements': ['Add two integers']",
     "'functional_requirements': null",
     "'non_functional_requirements': 'fast'",
     "'ambiguity_detected': true",
     "'ambiguity_detected': false",
     "'ambiguity_notes': 'note'",
     "'extra': 1"}

FenceAlphabet == {PythonFence, Fence, "x", " "}

\* Complete RequirementSets, as analyze returns them.
SampleRequirements(detected) ==
    [k \in SchemaKeys |->
        CASE k = "functional_requirements" ->
                 JList(<< <<"Add two integers">> >>)
          [] k = "non_functional_requirements" ->
                 JList(<< <<"Respond quickly">> >>)
          [] k = "assumptions" -> JList(<< <<"Inputs are integers">> >>)
          [] k = "constraints" -> JList(<< <<"Python 3.10">> >>)
          [] k = "clarifying_questions" -> JList(<< <<"Which platform?">> >>)
          [] k = "ambiguity_detected" -> JBool(detected)
          [] k = "ambiguity_notes" -> JStr(<<"note">>)]

SampleRequirementSets == {SampleRequirements(TRUE), SampleRequirements(FALSE)}

\* What the completion service may do at the Requirement stage's call.
AnalyzeOutcomes ==
    {Raises, RNone, RDictAbsent, RDictNull}
        \cup {RStr(c) : c \in SeqsUpTo(JsonAlphabet, MaxJson)}
        \cup {RDict(json_dumps(r)) : r \in SampleRequirementSets}
        \cup {RStr(<<"t">> \o json_dumps(r) \o <<"t">>) :
                  r \in SampleRequirementSets}
        \cup {RStr(<<"{", "}", "t", "{", "}">>)}

\* What it may do at the Documentation stage's call.
DocumentationOutcomes ==
    {Raises, RNone, RDictAbsent, RDictNull, RStr(<<>>), RStr(<<" ", "\n">>),
     RStr(<<"#", " ", "d">>), RDict(<<"d">>)}

\* What it may do at the Test stage's call.
TestOutcomes ==
    {Raises, RNone, RDictAbsent, RDictNull, RDict(<<Fence, "x", Fence>>),
     RStr(<<Fence, "x", Fence, " ", PythonFence, "y", Fence>>)}
        \cup {RStr(c) : c \in SeqsUpTo(FenceAlphabet, MaxTestContent)}

\* A first request, and a follow-up carrying the context of a first run.
FirstInput    == <<"fast", " ", "input">>
FollowUpInput == <<"should", " ", "error">>

FollowUpContext ==
    [is_active |-> TRUE,
     previous_prompts |-> <<FirstInput>>,
     previous_results |-> [requirements |-> SampleRequirements(FALSE),
                           code |-> <<"c", "\n", "c">>]]

AnalyzeCases ==
    {[user_input |-> FirstInput, context |-> Absent],
     [user_input |-> FollowUpInput, context |-> FollowUpContext]}

\* What a later stage may be handed: a RequirementSet analyze returned
\* (also one whose list it took over as null), and the generated code.
StageRequirementSets ==
    SampleRequirementSets
        \cup {requirement_set(<<"{", "'functional_requirements': null", "}">>),
              requirement_set(<<"t">>)}

StageCodes == {<<>>, <<"c", "\n", "c">>}

InitStages ==
    /\ DeployIdle
    /\ calls = 0
    /\ sleeps = <<>>
    /\ outcomes = <<>>
    /\ spc = "start"
    /\ ambiguity_info = Absent
    /\ prompt = <<>>
    /\ response = Absent
    /\ result = Absent
    /\ error = "None"
    /\ \/ /\ stage = "requirement"
          /\ \E case \in AnalyzeCases :
                 user_input = case.user_input /\ context = case.context
          /\ requirements = Absent
          /\ code = <<>>
       \/ /\ stage \in {"documentation", "test"}
          /\ user_input = <<>>
          /\ context = Absent
          /\ requirements \in StageRequirementSets
          /\ code \in StageCodes

\* The stage raised exc.
Raise(exc) ==
    /\ spc' = "raised"
    /\ error' = exc

\* The verdict consulted: an ambiguous request is turned away before the
\* prompt is composed.
AnalyzeCompose_blocking ==
    /\ stage = "requirement"
    /\ spc = "start"
    /\ ambiguity_info' = detect_ambiguity(user_input)
    /\ LET section == context_section(context)
       IN  IF is_ambiguous(user_input)
           THEN Raise("ValueError") /\ prompt' = prompt
           ELSE IF section.raised # "None"
           THEN Raise(section.raised) /\ prompt' = prompt
           ELSE /\ prompt' = analyze_prompt(section.text, user_input)
                /\ spc' = "call"
                /\ error' = error
    /\ UNCHANGED <<dvars, cvars, stage, user_input, context, requirements,
                   code, response, result>>

\* The latest prompt taken out of the context (previous_prompts.pop()) in
\* place of being read.
AnalyzeCompose_popping ==
    /\ stage = "requirement"
    /\ spc = "start"
    /\ ambiguity_info' = detect_ambiguity(user_input)
    /\ context' =
           IF context # Absent /\ context.is_active
              /\ context.previous_prompts # <<>>
           THEN [context EXCEPT !.previous_prompts =
                                    SubSeq(@, 1, Len(@) - 1)]
           ELSE context
    /\ LET section == context_section(context)
       IN  IF section.raised # "None"
           THEN Raise(section.raised) /\ prompt' = prompt
           ELSE /\ prompt' = analyze_prompt(section.text, user_input)
                /\ spc' = "call"
                /\ error' = error
    /\ UNCHANGED <<dvars, cvars, stage, user_input, requirements,
                   code, response, result>>

\* analyze, lines 85-139: the detector runs, the prompt is composed.
AnalyzeCompose ==
    /\ stage = "requirement"
    /\ spc = "start"
    /\ ambiguity_info' = detect_ambiguity(user_input)
    /\ LET section == context_section(context)
       IN  IF section.raised # "None"
           THEN Raise(section.raised) /\ prompt' = prompt
           ELSE /\ prompt' = analyze_prompt(section.text, user_input)
                /\ spc' = "call"
                /\ error' = error
    /\ UNCHANGED <<dvars, cvars, stage, user_input, context, requirements,
                   code, response, result>>

\* The detector's verdict merged into the result: ambiguity_detected is
\* also true when the detector said ambiguous.
AnalyzeReply_merging(o) ==
    /\ calls' = calls + 1
    /\ outcomes' = Append(outcomes, o)
    /\ IF o.kind = "raise"
       THEN Raise("Exception") /\ UNCHANGED <<response, result>>
       ELSE IF o.kind = "None"
       THEN Raise("ValueError") /\ UNCHANGED <<response, result>>
       ELSE /\ response' = o
            /\ IF content_of(o).none
               THEN Raise("TypeError") /\ result' = result
               ELSE /\ result' =
                           IF ambiguity_info.is_ambiguous
                           THEN [requirement_set(content_of(o).text) EXCEPT
                                    !["ambiguity_detected"] = JBool(TRUE)]
                           ELSE requirement_set(content_of(o).text)
                    /\ spc' = "returned"
                    /\ error' = error
    /\ UNCHANGED <<dvars, sleeps, stage, user_input, context, requirements,
                   code, ambiguity_info, prompt>>

\* analyze, lines 141-178, when the completion service does o: the one
\* call, then the parse.  len(content) in line 150 raises when the mapping
\* holds a null content.
AnalyzeReply(o) ==
    /\ calls' = calls + 1
    /\ outcomes' = Append(outcomes, o)
    /\ IF o.kind = "raise"
       THEN Raise("Exception") /\ UNCHANGED <<response, result>>
       ELSE IF o.kind = "None"
       THEN Raise("ValueError") /\ UNCHANGED <<response, result>>
       ELSE /\ response' = o
            /\ IF content_of(o).none
               THEN Raise("TypeError") /\ result' = result
               ELSE /\ result' = requirement_set(content_of(o).text)
                    /\ spc' = "returned"
                    /\ error' = error
    /\ UNCHANGED <<dvars, sleeps, stage, user_input, context, requirements,
                   code, ambiguity_info, prompt>>

\* analyze, lines 141-178, over every response of the Requirement stage.
AnalyzeCall ==
    /\ stage = "requirement"
    /\ spc = "call"
    /\ \E o \in AnalyzeOutcomes : AnalyzeReply(o)

\* What a stage's call comes to: it raised exc, or returned value.
Failed(exc)     == [pc |-> "raised", error |-> exc, result |-> Absent]
Returned(value) == [pc |-> "returned", error |-> "None", result |-> value]

\* generate_documentation, lines 111-192: req_text and the prompt.
documentation_prompt(reqs, generated) ==
    LET req_text == format_requirements(reqs)
    IN  IF req_text.raised # "None" THEN req_text
        ELSE Value(<<"Generate clear, structured Markdown documentation ...\n\nORIGINAL REQUIREMENTS:\n">>
                   \o req_text.text
                   \o <<"\n\nGENERATED CODE:\n", PythonFence, "\n">>
                   \o generated
                   \o <<"\n", Fence, "\n\nMANDATORY SECTIONS ...">>)

\* generate_documentation, lines 194-203, when the completion service does
\* o: the content is returned as it is.
documentation_return(o) ==
    IF o.kind = "raise" THEN Failed("Exception")
    ELSE IF o.kind = "None" THEN Failed("ValueError")
    ELSE Returned(content_of(o))

\* generate_tests, lines 129-200: req_text, the modules and the prompt.
test_prompt(reqs, generated) ==
    LET req_text == format_requirements(reqs)
    IN  IF req_text.raised # "None" THEN req_text
        ELSE Value(<<"Generate unit tests ...\n\nORIGINAL REQUIREMENTS:\n">>
                   \o req_text.text
                   \o <<"\n\nCODE TO TEST:\n", PythonFence, "\n">>
                   \o generated
                   \o <<"\n", Fence, "\n\nIDENTIFIED MODULES/CLASSES/FUNCTIONS:\n">>
                   \o identify_modules(generated)
                   \o <<"\n\nMANDATORY REQUIREMENTS: ...">>)

\* generate_tests, lines 202-212, when the completion service does o: the
\* code block is taken out; the test `fence in content` raises on a null
\* content.
test_return(o) ==
    IF o.kind = "raise" THEN Failed("Exception")
    ELSE IF o.kind = "None" THEN Failed("ValueError")
    ELSE IF content_of(o).none THEN Failed("TypeError")
    ELSE Returned(PyStr(extract_code_blocks(content_of(o).text)))

\* generate_deployment_config, lines 95-156: req_text and the prompt.
deployment_prompt(reqs, generated) ==
    LET req_text == deployment_format_requirements(reqs)
    IN  IF req_text.raised # "None" THEN req_text
        ELSE Value(<<"Generate deployment configuration ...\n\nORIGINAL REQUIREMENTS:\n">>
                   \o req_text.text
                   \o <<"\n\nGENERATED CODE:\n", PythonFence, "\n">>
                   \o generated
                   \o <<"\n", Fence, "\n\nMANDATORY OUTPUTS: ...">>)

\* generate_documentation, lines 111-192.
DocumentationCompose ==
    /\ stage = "documentation"
    /\ spc = "start"
    /\ LET composed == documentation_prompt(requirements, code)
       IN  IF composed.raised # "None"
           THEN Raise(composed.raised) /\ prompt' = prompt
           ELSE /\ prompt' = composed.text
                /\ spc' = "call"
                /\ error' = error
    /\ UNCHANGED <<dvars, cvars, stage, user_input, context, requirements,
                   code, ambiguity_info, response, result>>

\* generate_documentation, lines 194-203: the one call.
DocumentationCall ==
    /\ stage = "documentation"
    /\ spc = "call"
    /\ \E o \in DocumentationOutcomes :
        LET end == documentation_return(o)
        IN  /\ calls' = calls + 1
            /\ outcomes' = Append(outcomes, o)
            /\ spc' = end.pc
            /\ IF end.pc = "raised"
               THEN error' = end.error /\ result' = result
               ELSE error' = error /\ result' = end.result
            /\ response' = IF o.kind \in {"raise", "None"} THEN response ELSE o
    /\ UNCHANGED <<dvars, sleeps, stage, user_input, context, requirements,
                   code, ambiguity_info, prompt>>

\* generate_tests, lines 129-200.
TestCompose ==
    /\ stage = "test"
    /\ spc = "start"
    /\ LET composed == test_prompt(requirements, code)
       IN  IF composed.raised # "None"
           THEN Raise(composed.raised) /\ prompt' = prompt
           ELSE /\ prompt' = composed.text
                /\ spc' = "call"
                /\ error' = error
    /\ UNCHANGED <<dvars, cvars, stage, user_input, context, requirements,
                   code, ambiguity_info, response, result>>

\* generate_tests, lines 202-212: the one call, then the extraction.
TestCall ==
    /\ stage = "test"
    /\ spc = "call"
    /\ \E o \in TestOutcomes :
        LET end == test_return(o)
        IN  /\ calls' = calls + 1
            /\ outcomes' = Append(outcomes, o)
            /\ spc' = end.pc
            /\ IF end.pc = "raised"
               THEN error' = end.error /\ result' = result
               ELSE error' = error /\ result' = end.result
            /\ response' = IF o.kind \in {"raise", "None"} THEN response ELSE o
    /\ UNCHANGED <<dvars, sleeps, stage, user_input, context, requirements,
                   code, ambiguity_info, prompt>>

NextStages ==
    \/ AnalyzeCompose
    \/ AnalyzeCall
    \/ DocumentationCompose
    \/ DocumentationCall
    \/ TestCompose
    \/ TestCall

SpecStages == InitStages /\ [][NextStages]_vars

(***************************************************************************)
(* Claims about the Requirement, Documentation and Test stages (checked    *)
(* under SpecStages).                                                      *)
(***************************************************************************)

\* The stage has ended, one way or the other.
StageEnded == spc \in {"returned", "raised"}

\* C3: analyze fails only when the invocation fails: for every response
\* that is not None it returns, and the record returned has exactly the
\* seven schema keys.
C3_AnalyzeFailsOnlyOnInvocationFailure ==
    (stage = "requirement" /\ StageEnded /\ Len(outcomes) = 1
     /\ outcomes[1].kind \notin {"raise", "None"}) =>
        /\ spc = "returned"
        /\ DOMAIN result = SchemaKeys

\* C4: in every RequirementSet analyze returns the five list fields are
\* lists, ambiguity_detected is a boolean and ambiguity_notes a string, so
\* that the later stages' _format_requirements iterate it without raising.
C4_FieldsWellTyped ==
    (stage = "requirement" /\ spc = "returned") =>
        /\ \A k \in ListKeys : result[k].t = "list"
        /\ result["ambiguity_detected"].t = "bool"
        /\ result["ambiguity_notes"].t = "str"
        /\ format_requirements(result).raised = "None"
        /\ deployment_format_requirements(result).raised = "None"

\* The text the response carries.
ResponseText(r) ==
    IF r.kind = "dict_without_content" THEN <<>> ELSE r.content.text

\* The empty default of a schema key.
EmptyDefault(k) ==
    IF k = "ambiguity_detected" THEN JBool(FALSE)
    ELSE IF k = "ambiguity_notes" THEN JStr(<<>>)
    ELSE JList(<<>>)

\* From the first "{" (at i) to the last "}" (at j) the text is an object:
\* members and nothing else.
ObjectSpan(c, i, j) ==
    /\ i < j
    /\ c[i] = "{" /\ \A p \in 1..(i - 1) : c[p] # "{"
    /\ c[j] = "}" /\ \A p \in (j + 1)..Len(c) : c[p] # "}"
    /\ \A p \in (i + 1)..(j - 1) : c[p] \in MemberTokens

\* What the object written from i to j says of key k: the value of its last
\* member of that key, the empty default when it has none.
SaidOf(c, i, j, k) ==
    LET at == {p \in (i + 1)..(j - 1) : Member(c[p]).key = k}
    IN  IF at = {} THEN EmptyDefault(k)
        ELSE Member(c[CHOOSE p \in at : \A q \in at : q <= p]).value

C8_EveryStageRetries ==
    (stage \in {"requirement", "documentation", "test"} /\ StageEnded
     /\ Len(outcomes) >= 1 /\ AttemptFailed(outcomes[1])) =>
        /\ calls >= 2
        /\ Len(sleeps) >= 1

\* C9: generate_documentation raises whenever the response is None or its
\* content is empty or whitespace only, and so never returns an empty or
\* whitespace-only documentation.
C9_DocumentationNeverBlank ==
    (stage = "documentation" /\ StageEnded) =>
        /\ (Len(outcomes) = 1 /\ AttemptFailed(outcomes[1])) => spc = "raised"
        /\ spc = "returned" =>
               /\ ~result.none
               /\ \E i \in 1..Len(result.text) :
                      result.text[i] \notin Whitespace

(***************************************************************************)
(* Follow-up runs of the Requirement stage: analyze handed the context of  *)
(* an earlier run.                                                         *)
(***************************************************************************)

\* Requests of every verdict: two short ones, one the detector passes (50
\* characters, two topics named, no vague word) and a long one with three
\* vague words.
UnambiguousInput == <<"input", " ", "error", " ", Filler38>>
VagueInput == <<"fast", " ", "Good", " ", "should", " ", Filler38>>

FollowUpInputs == {FirstInput, FollowUpInput, UnambiguousInput, VagueInput}

\* The request of a run before the first.
OlderInput == <<"Good", " ", "input">>

\* RequirementSets with no, and with more than SummaryRequirements,
\* functional requirements.
NoRequirements ==
    [SampleRequirements(FALSE) EXCEPT !["functional_requirements"] =
                                          JList(<<>>)]

FourRequirements ==
    [SampleRequirements(TRUE) EXCEPT !["functional_requirements"] =
         JList(<< <<"r1">>, <<"r2">>, <<"r3">>, <<"r4">> >>)]

\* Code longer than the summary keeps, and code just as long.
LongCode == [i \in 1..(SummaryLimit + 1) |-> "c"]
FullCode == [i \in 1..SummaryLimit |-> "c"]

\* The context dictionary of line 73 and its previous_results.
PipelineContext(active, prompts, results) ==
    [is_active |-> active, previous_prompts |-> prompts,
     previous_results |-> results]

PreviousResults(reqs, prev_code) == [requirements |-> reqs, code |-> prev_code]

\* No context; an inactive one; active ones with neither, either or both of
\* prompts and results; one whose RequirementSet holds a null list.
FollowUpContexts ==
    {Absent,
     PipelineContext(FALSE, <<FirstInput>>,
                     PreviousResults(SampleRequirements(FALSE), <<"c">>)),
     PipelineContext(TRUE, <<>>, Absent),
     PipelineContext(TRUE, <<FirstInput>>, Absent),
     PipelineContext(TRUE, <<>>,
                     PreviousResults(SampleRequirements(FALSE), <<"c">>)),
     FollowUpContext,
     PipelineContext(TRUE, <<OlderInput, FirstInput>>,
                     PreviousResults(FourRequirements, <<>>)),
     PipelineContext(TRUE, <<OlderInput, UnambiguousInput>>,
                     PreviousResults(NoRequirements, LongCode)),
     PipelineContext(TRUE, <<FirstInput>>, PreviousResults(Absent, <<"c">>)),
     PipelineContext(TRUE, <<FirstInput, OlderInput, FollowUpInput>>,
                     PreviousResults(FourRequirements, FullCode)),
     PipelineContext(TRUE, <<FirstInput>>,
                     PreviousResults(
                         requirement_set(<<"{",
                             "'functional_requirements': null", "}">>),
                         <<"c">>))}

\* What the completion service may do, in brief.
FollowUpOutcomes ==
    {Raises, RNone, RDictNull, RStr(<<"t">>),
     RStr(<<"{", "'functional_requirements': ['Add two integers']",
            "'ambiguity_detected': false", "}">>),
     RDict(json_dumps(SampleRequirements(TRUE)))}

InitFollowUp ==
    /\ DeployIdle
    /\ calls = 0
    /\ sleeps = <<>>
    /\ outcomes = <<>>
    /\ stage = "requirement"
    /\ spc = "start"
    /\ user_input \in FollowUpInputs
    /\ context \in FollowUpContexts
    /\ requirements = Absent
    /\ code = <<>>
    /\ ambiguity_info = Absent
    /\ prompt = <<>>
    /\ response = Absent
    /\ result = Absent
    /\ error = "None"

\* analyze, lines 141-178, over the brief responses.
AnalyzeCallBrief ==
    /\ stage = "requirement"
    /\ spc = "call"
    /\ \E o \in FollowUpOutcomes : AnalyzeReply(o)

NextFollowUp ==
    \/ AnalyzeCompose
    \/ AnalyzeCallBrief

SpecFollowUp == InitFollowUp /\ [][NextFollowUp]_vars

(***************************************************************************)
(* Claims about follow-up runs (checked under SpecFollowUp).               *)
(***************************************************************************)

\* sub is written somewhere in text.
HasSubSeq(text, sub) ==
    \E i \in 0..(Len(text) - Len(sub)) :
        SubSeq(text, i + 1, i + Len(sub)) = sub

\* The context carries an earlier run's RequirementSet whose
\* functional_requirements is not a list.
IllTyped(ctx) ==
    /\ ctx # Absent
    /\ ctx.previous_results # Absent
    /\ ctx.previous_results.requirements # Absent
    /\ ctx.previous_results.requirements["functional_requirements"].t
           # "list"

\* C12: the verdict never blocks the Requirement stage: whether the
\* detector says ambiguous or not, analyze composes the prompt with the
\* request in it and issues the completion call, and it ends only after
\* that call; the one failure before the call is the TypeError of rendering
\* an ill-typed context, which does not depend on the verdict.
C12_VerdictNeverBlocks ==
    (stage = "requirement" /\ spc # "start") =>
        /\ ambiguity_info # Absent
        /\ spc = "call" => calls = 0 /\ HasSubSeq(prompt, user_input)
        /\ (StageEnded /\ ~IllTyped(context)) =>
               calls = 1 /\ HasSubSeq(prompt, user_input)
        /\ (StageEnded /\ calls = 0) =>
               /\ error = "TypeError"
               /\ IllTyped(context) /\ context.is_active

\* A request the detector calls ambiguous on its vague words goes through
\* the call and returns.
C12_Witness ==
    /\ stage = "requirement"
    /\ spc = "returned"
    /\ user_input = VagueInput
    /\ ambiguity_info.is_ambiguous
    /\ ambiguity_info.vague_terms_found = 3
    /\ calls = 1

\* The context is active and carries the first run: its prompt last in
\* previous_prompts, its RequirementSet (lists of strings) in
\* previous_results.
CarriesFirstRun(ctx) ==
    /\ ctx # Absent
    /\ ctx.is_active
    /\ ctx.previous_prompts # <<>>
    /\ ctx.previous_results # Absent
    /\ ctx.previous_results.requirements # Absent
    /\ ~IllTyped(ctx)

\* The prompt up to the new request.
BeforeRequest(p) == Slice(p, 0, Find(p, "\nUSER REQUIREMENT:\n", 0))

\* C13: in a second run whose context is active and carries the first run,
\* the composed prompt contains, ahead of the new request, the first run's
\* prompt text and a rendering of the first run's functional requirements:
\* the first SummaryRequirements of them, in order, separated by commas.
C13_FollowUpPromptCarriesFirstRun ==
    (stage = "requirement" /\ spc # "start" /\ CarriesFirstRun(context)) =>
        LET first_run == context.previous_results.requirements
            listed    == first_run["functional_requirements"].items
            shown     == SubSeq(listed, 1, Min(Len(listed), SummaryRequirements))
        IN  /\ prompt # <<>>
            /\ HasSubSeq(BeforeRequest(prompt),
                         context.previous_prompts[Len(context.previous_prompts)])
            /\ HasSubSeq(BeforeRequest(prompt),
                         <<"Previous functional requirements: ">>
                             \o Join(shown) \o <<"\n">>)

\* The second run after two earlier ones, the last with four functional
\* requirements: the latest prompt and the first three are in the prompt.
C13_Witness ==
    /\ stage = "requirement"
    /\ spc = "call"
    /\ user_input = UnambiguousInput
    /\ context # Absent
    /\ context.previous_prompts = <<OlderInput, FirstInput>>
    /\ HasSubSeq(BeforeRequest(prompt), FirstInput)
    /\ HasSubSeq(BeforeRequest(prompt), <<"r1", ", ", "r2", ", ", "r3", "\n">>)

\* C14: analyze does not change the context it is handed: is_active,
\* previous_prompts and previous_results, the nested RequirementSet and
\* code included, are after every step what they were before it, whether
\* analyze returns or raises.
C14_ContextUnchanged == [][context' = context]_vars

\* analyze has ended, by raising, with the context of the first run.
C14_Witness ==
    /\ stage = "requirement"
    /\ spc = "raised"
    /\ calls = 1
    /\ context = FollowUpContext

\* The context asks for the section: supplied, active, with a prompt or
\* results.
AsksForSection(ctx) ==
    /\ ctx # Absent
    /\ ctx.is_active
    /\ ctx.previous_prompts # <<>> \/ ctx.previous_results # Absent

\* C20: a composed prompt holds the PREVIOUS CONTEXT section exactly when
\* a context is supplied, active, and has a previous prompt or previous
\* results; otherwise it is the prompt of a fresh request with the same
\* user input.
C20_ContextSectionIffActive ==
    (stage = "requirement" /\ prompt # <<>>) =>
        /\ Contains(prompt, "\n\nPREVIOUS CONTEXT:\n")
               <=> AsksForSection(context)
        /\ ~AsksForSection(context) =>
               prompt = <<"Analyze the following user requirement ...\n",
                          "\nUSER REQUIREMENT:\n">>
                        \o user_input
                        \o <<"\n\nTASK: ... OUTPUT FORMAT: ... IMPORTANT: ...">>

\* An inactive context with prompts and results: no section.
C20_Witness ==
    /\ stage = "requirement"
    /\ spc = "call"
    /\ context # Absent
    /\ ~context.is_active
    /\ context.previous_prompts # <<>>
    /\ ~Contains(prompt, "\n\nPREVIOUS CONTEXT:\n")

(***************************************************************************)
(* The terminal stages run together: generate_documentation,               *)
(* generate_tests and generate_deployment_config on the same code and      *)
(* RequirementSet, their steps interleaved in every order.  spc, prompt,   *)
(* result and error hold one value for each of the Documentation and Test  *)
(* stages; response holds what the completion service will do for each     *)
(* stage; the call log is the Deployment stage's.                          *)
(***************************************************************************)

\* A RequirementSet with two requirements of each kind.
TwoOfEach ==
    [SampleRequirements(FALSE) EXCEPT
        !["functional_requirements"] = JList(<< <<"f1">>, <<"f2">> >>),
        !["non_functional_requirements"] = JList(<< <<"n1">>, <<"n2">> >>)]

TerminalRequirementSets ==
    {SampleRequirements(TRUE), TwoOfEach,
     requirement_set(<<"{", "'functional_requirements': null", "}">>)}

TerminalCode == <<"c", "\n", "c">>

TerminalDocumentationOutcomes == {Raises, RStr(<<>>), RStr(<<"#", " ", "d">>)}

TerminalTestOutcomes ==
    {RNone, RDictNull, RStr(<<"x", PythonFence, "x", Fence>>)}

TerminalDeployOutcomes == {Raises, RNone, RStr(<<" ">>), RStr(OkContent1)}

InitTerminal ==
    /\ stage = "terminal"
    /\ spc = [documentation |-> "start", test |-> "start"]
    /\ prompt = [documentation |-> <<>>, test |-> <<>>, deployment |-> <<>>]
    /\ result = [documentation |-> Absent, test |-> Absent]
    /\ error = [documentation |-> "None", test |-> "None"]
    /\ response \in [documentation : TerminalDocumentationOutcomes,
                      test : TerminalTestOutcomes,
                      deployment : [1..max_retries -> TerminalDeployOutcomes]]
    /\ requirements \in TerminalRequirementSets
    /\ code = TerminalCode
    /\ user_input = <<>>
    /\ context = Absent
    /\ ambiguity_info = Absent
    /\ dpc = "start"
    /\ attempt = 0
    /\ content = PyNone
    /\ last_error = "None"
    /\ config = NoConfig
    /\ calls = 0
    /\ sleeps = <<>>
    /\ outcomes = <<>>

\* Stage s composes its prompt, or raises doing so.
StageCompose(s, composed) ==
    /\ spc[s] = "start"
    /\ IF composed.raised # "None"
       THEN /\ spc' = [spc EXCEPT ![s] = "raised"]
            /\ error' = [error EXCEPT ![s] = composed.raised]
            /\ prompt' = prompt
       ELSE /\ spc' = [spc EXCEPT ![s] = "call"]
            /\ prompt' = [prompt EXCEPT ![s] = composed.text]
            /\ error' = error
    /\ UNCHANGED <<dvars, cvars, stage, user_input, context, requirements,
                   code, ambiguity_info, response, result>>

\* Stage s makes its one call and ends.
StageCall(s, end) ==
    /\ spc[s] = "call"
    /\ spc' = [spc EXCEPT ![s] = end.pc]
    /\ error' = [error EXCEPT ![s] = end.error]
    /\ result' = [result EXCEPT ![s] = end.result]
    /\ UNCHANGED <<dvars, cvars, stage, user_input, context, requirements,
                   code, ambiguity_info, response, prompt>>

\* generate_documentation, lines 111-192 and 194-203.
TerminalDocumentationCompose ==
    /\ stage = "terminal"
    /\ StageCompose("documentation",
                    documentation_prompt(requirements, code))

TerminalDocumentationCall ==
    /\ stage = "terminal"
    /\ StageCall("documentation",
                    documentation_return(response.documentation))

\* generate_tests, lines 129-200 and 202-212.
TerminalTestCompose ==
    /\ stage = "terminal"
    /\ StageCompose("test",
                    test_prompt(requirements, code))

TerminalTestCall ==
    /\ stage = "terminal"
    /\ StageCall("test",
                    test_return(response.test))

\* The shared RequirementSet emptied while it is formatted (the list
\* consumed with pop()).
TerminalDeployCompose_consuming ==
    /\ stage = "terminal"
    /\ dpc = "start"
    /\ LET composed == deployment_prompt(requirements, code)
       IN  IF composed.raised # "None"
           THEN /\ dpc' = "raised"
                /\ last_error' = composed.raised
                /\ prompt' = prompt
           ELSE /\ dpc' = "loop"
                /\ last_error' = last_error
                /\ prompt' = [prompt EXCEPT !.deployment = composed.text]
    /\ requirements' =
           IF requirements["functional_requirements"].t = "list"
           THEN [requirements EXCEPT !["functional_requirements"] =
                                         JList(<<>>)]
           ELSE requirements
    /\ UNCHANGED <<attempt, content, config, cvars, stage, spc, user_input,
                   context, code, ambiguity_info, response, result, error>>

\* generate_deployment_config, lines 95-161: req_text, the prompt, the
\* locals of the loop.
TerminalDeployCompose ==
    /\ stage = "terminal"
    /\ dpc = "start"
    /\ LET composed == deployment_prompt(requirements, code)
       IN  IF composed.raised # "None"
           THEN /\ dpc' = "raised"
                /\ last_error' = composed.raised
                /\ prompt' = prompt
           ELSE /\ dpc' = "loop"
                /\ last_error' = last_error
                /\ prompt' = [prompt EXCEPT !.deployment = composed.text]
    /\ UNCHANGED <<attempt, content, config, cvars, stage, spc, user_input,
                   context, requirements, code, ambiguity_info, response,
                   result, error>>

\* One pass of the retry loop, the service doing what it will do at this
\* attempt.
TerminalDeployAttempt ==
    /\ stage = "terminal"
    /\ dpc = "loop"
    /\ attempt < max_retries
    /\ UNCHANGED svars
    /\ DeployReply(response.deployment[attempt + 1])

NextTerminal ==
    \/ TerminalDocumentationCompose
    \/ TerminalDocumentationCall
    \/ TerminalTestCompose
    \/ TerminalTestCall
    \/ TerminalDeployCompose
    \/ TerminalDeployAttempt
    \/ DeployFinish

SpecTerminal == InitTerminal /\ [][NextTerminal]_vars

(***************************************************************************)
(* Claims about the terminal stages (checked under SpecTerminal).          *)
(***************************************************************************)

\* What each stage comes to when it runs alone on reqs and generated code
\* with the service doing o (for Deployment: script[k] at attempt k).
DocumentationAlone(reqs, generated, o) ==
    LET composed == documentation_prompt(reqs, generated)
    IN  IF composed.raised # "None" THEN Failed(composed.raised)
        ELSE documentation_return(o)

TestAlone(reqs, generated, o) ==
    LET composed == test_prompt(reqs, generated)
    IN  IF composed.raised # "None" THEN Failed(composed.raised)
        ELSE test_return(o)

DeployAlone(reqs, script) ==
    LET good == {k \in 1..max_retries : ~AttemptFailed(script[k])}
    IN  IF deployment_format_requirements(reqs).raised # "None" \/ good = {}
        THEN [pc |-> "raised", config |-> NoConfig]
        ELSE LET k == CHOOSE k \in good : \A j \in good : k <= j
             IN  [pc |-> "returned",
                  config |->
                      parse_deployment_output(content_of(script[k]).text)]

\* C15: the terminal stages are independent: in every interleaving of
\* their steps, Deployment's retries and sleeps included, each stage that
\* has ended has the output or the failure it has when run alone on the
\* same code, RequirementSet and service responses, and no step changes
\* the shared code or RequirementSet.
C15_TerminalStagesIndependent ==
    /\ [](stage = "terminal" =>
            /\ spc.documentation \in {"raised", "returned"} =>
                   [pc |-> spc.documentation, error |-> error.documentation,
                    result |-> result.documentation]
                       = DocumentationAlone(requirements, code,
                                            response.documentation)
            /\ spc.test \in {"raised", "returned"} =>
                   [pc |-> spc.test, error |-> error.test,
                    result |-> result.test]
                       = TestAlone(requirements, code, response.test)
            /\ dpc \in {"raised", "returned"} =>
                   [pc |-> dpc, config |-> config]
                       = DeployAlone(requirements, response.deployment))
    /\ [][requirements' = requirements /\ code' = code]_vars

\* Documentation has returned and Test has raised while Deployment is
\* between its second and third attempts; and all three have ended.
C15_Witness ==
    /\ stage = "terminal"
    /\ spc.documentation = "returned"
    /\ spc.test = "raised"
    /\ dpc = "returned"
    /\ sleeps = <<1, 2>>
    /\ calls = 3
    /\ config.github_push = <<"x">>

(***************************************************************************)
(* Further claims about the labeled-section parser (checked under          *)
(* SpecParse).                                                             *)
(***************************************************************************)

\* The section of a marker by the rule: the trimmed text from just after
\* the marker's first occurrence to the next marker of any kind after it,
\* or to the end of the text when no marker follows.
SectionByRule(c, marker) ==
    LET from == Find(c, marker, 0) + 1
        next == {i \in from..(Len(c) - 1) : c[i + 1] \in Markers}
        to   == IF next = {} THEN Len(c)
                ELSE CHOOSE i \in next : \A j \in next : i <= j
    IN  Strip(Slice(c, from, to))

\* The field by the rule: the section when its marker occurs and the
\* section is not blank, the default otherwise.
FieldByRule(c, marker, default) ==
    IF Contains(c, marker) /\ SectionByRule(c, marker) # <<>>
    THEN SectionByRule(c, marker)
    ELSE default

\* C16: for every content, each field is the trimmed text between its
\* marker and the next recognized marker after it, or the end of the text
\* when none follows; the default is used only when the marker does not
\* occur or its section is blank.
C16_SectionUpToNextMarker ==
    dpc = "returned" =>
        LET c == content.text IN
        /\ config.requirements =
               FieldByRule(c, REQUIREMENTS, generate_default_requirements)
        /\ config.setup_instructions =
               FieldByRule(c, SETUP_INSTRUCTIONS, generate_default_setup)
        /\ config.github_push =
               FieldByRule(c, GITHUB_PUSH, generate_default_github_push)
        /\ config.hosting_platforms =
               FieldByRule(c, HOSTING_PLATFORMS,
                           generate_default_hosting_platforms)

\* What the members of a JSON deployment response say.
DeployJsonSays ==
    [requirements |-> <<"flask">>, setup_instructions |-> <<"pip install">>,
     github_push |-> <<"git push">>, hosting_platforms |-> <<"Heroku">>]

\* C17: structured extraction comes first in the Deployment stage too: a
\* response that is a valid JSON mapping of the four schema keys, with no
\* section marker, yields a DeploymentConfig holding the four parsed
\* values, not the canned defaults.
C17_DeploymentStructuredFirst ==
    (dpc = "returned" /\ content.text \in DeployJsonContents) =>
        config = DeployJsonSays

(***************************************************************************)
(* Further claims about the Requirement stage (checked under SpecStages).  *)
(***************************************************************************)

\* The text holds no JSON object from its first "{" to its last "}": no
\* "{", no "}", the last "}" before the first "{", or a span that is not
\* an object.
NoObject(c) == ~\E i, j \in 1..Len(c) : ObjectSpan(c, i, j)

\* C18: a failed structured extraction is absorbed: when the response
\* carries text with no JSON object from its first "{" to its last "}",
\* analyze returns the fallback record: functional_requirements is the
\* one-element list of the whole raw text, ambiguity_detected is true,
\* assumptions and ambiguity_notes carry the parse-failure notes and the
\* other three lists are empty.
C18_ExtractionFailureAbsorbed ==
    (/\ stage = "requirement"
     /\ StageEnded
     /\ Len(outcomes) = 1
     /\ outcomes[1].kind \notin {"raise", "None"}
     /\ ~content_of(outcomes[1]).none
     /\ NoObject(ResponseText(outcomes[1]))) =>
        /\ spc = "returned"
        /\ DOMAIN result = SchemaKeys
        /\ result["functional_requirements"] =
               JList(<<ResponseText(outcomes[1])>>)
        /\ result["ambiguity_detected"] = JBool(TRUE)
        /\ result["assumptions"] =
               JList(<< <<"Could not parse structured requirements - using raw input">> >>)
        /\ result["ambiguity_notes"] =
               JStr(<<"JSON parsing failed - requirements may be incomplete">>)
        /\ result["non_functional_requirements"] = JList(<<>>)
        /\ result["constraints"] = JList(<<>>)
        /\ result["clarifying_questions"] = JList(<<>>)

\* Two separate objects with prose between them: the span is not an
\* object, and the whole text comes back as the one requirement.
C18_Witness ==
    /\ stage = "requirement"
    /\ spc = "returned"
    /\ ResponseText(response) = <<"{", "}", "t", "{", "}">>
    /\ result["functional_requirements"] =
           JList(<< <<"{", "}", "t", "{", "}">> >>)
    /\ result["ambiguity_detected"] = JBool(TRUE)

(***************************************************************************)
(* Further claims about the Test stage (checked under SpecStages).         *)
(***************************************************************************)

\* The positions (0-based) of the fences of either kind.
FencesOf(c) == {i \in 0..(Len(c) - 1) : c[i + 1] \in {Fence, PythonFence}}

\* C19: the Test stage returns the trimmed body of the first fenced code
\* block of the response (from its first fence, plain or python, to the
\* fence that closes it), also when a plain block comes before a python
\* block, and the trimmed raw text when the response has no fence.
C19_FirstFencedBlock ==
    (stage = "test" /\ spc = "returned") =>
        LET c      == ResponseText(response)
            fences == FencesOf(c)
            open   == CHOOSE i \in fences : \A j \in fences : i <= j
            after  == {i \in fences : i > open}
            close  == CHOOSE i \in after : \A j \in after : i <= j
        IN  /\ fences = {} => result = PyStr(Strip(c))
            /\ (fences # {} /\ after # {}) =>
                   result = PyStr(Strip(Slice(c, open + 1, close)))

(***************************************************************************)
(* Further claims about the terminal stages (checked under SpecTerminal).  *)
(***************************************************************************)

\* The bullet line of one requirement.
BulletLine(item) == <<"- ">> \o item \o <<"\n">>

\* text holds, from position `from` on, a bullet line for each item, in the
\* order of the items.
RECURSIVE BulletsInOrder(_, _, _)
BulletsInOrder(text, items, from) ==
    IF items = <<>> THEN TRUE
    ELSE LET line == BulletLine(Head(items))
             at   == {i \in from..(Len(text) - Len(line)) :
                          SubSeq(text, i + 1, i + Len(line)) = line}
         IN  /\ at # {}
             /\ BulletsInOrder(text, Tail(items),
                    (CHOOSE i \in at : \A j \in at : i <= j) + Len(line))

\* The prompt renders both lists of the RequirementSet.
RendersBothLists(p, reqs) ==
    /\ BulletsInOrder(p, reqs["functional_requirements"].items, 0)
    /\ BulletsInOrder(p, reqs["non_functional_requirements"].items, 0)

\* C21: for every RequirementSet the prompt composed by the Documentation,
\* the Test and the Deployment stage holds one bullet line for each
\* functional requirement and one for each non-functional requirement, in
\* their original order.
C21_PromptsRenderBothLists ==
    (stage = "terminal"
     /\ requirements["functional_requirements"].t = "list"
     /\ requirements["non_functional_requirements"].t = "list") =>
        \A s \in {"documentation", "test", "deployment"} :
            prompt[s] # <<>> => RendersBothLists(prompt[s], requirements)

(***************************************************************************)
(* Further claims about follow-up runs (checked under SpecFollowUp).       *)
(***************************************************************************)

\* C22: the detector's verdict flows into neither the prompt nor the
\* result of analyze: the prompt is made of the context's section and the
\* request alone, and the returned RequirementSet is what the response
\* says, whatever the verdict: ambiguity_detected is the response's value,
\* false when the JSON omits the key and true on fallback, also when the
\* detector said otherwise.
C22_VerdictDoesNotFlow ==
    /\ (stage = "requirement" /\ prompt # <<>>) =>
           prompt = <<"Analyze the following user requirement ...\n">>
                    \o context_section(context).text
                    \o <<"\nUSER REQUIREMENT:\n">> \o user_input
                    \o <<"\n\nTASK: ... OUTPUT FORMAT: ... IMPORTANT: ...">>
    /\ (stage = "requirement" /\ spc = "returned") =>
           LET c == ResponseText(response) IN
           /\ \A i, j \in 1..Len(c) :
                  ObjectSpan(c, i, j) =>
                      \A k \in SchemaKeys : result[k] = SaidOf(c, i, j, k)
           /\ NoObject(c) =>
                  /\ result["ambiguity_detected"] = JBool(TRUE)
                  /\ result["functional_requirements"] = JList(<<c>>)
                  /\ \A k \in {"non_functional_requirements", "constraints",
                                "clarifying_questions"} :
                         result[k] = JList(<<>>)

\* The detector said ambiguous, the response said not: the result says
\* not.
C22_Witness ==
    /\ stage = "requirement"
    /\ spc = "returned"
    /\ ambiguity_info.is_ambiguous
    /\ result["ambiguity_detected"] = JBool(FALSE)
    /\ result["functional_requirements"] = JList(<< <<"Add two integers">> >>)

\* C23: the context summary is bounded to the latest state: of the
\* previous prompts the section holds the last and no earlier one, of the
\* prior functional requirements the first SummaryRequirements at most,
\* and of the prior code the first SummaryLimit characters at most, with an
\* ellipsis after them when the code is longer.
C23_SummaryBounded ==
    (stage = "requirement" /\ prompt # <<>> /\ AsksForSection(context)
     /\ ~IllTyped(context)) =>
        LET section == BeforeRequest(prompt)
            prompts == context.previous_prompts
            results == context.previous_results
        IN  /\ prompts # <<>> =>
                   /\ HasSubSeq(section, <<"Previous prompt(s): ">>
                                             \o prompts[Len(prompts)]
                                             \o <<"\n">>)
                   /\ Occurrences(section, "Previous prompt(s): ") = 1
                   /\ \A i \in 1..(Len(prompts) - 1) :
                          prompts[i] # prompts[Len(prompts)] =>
                              ~HasSubSeq(section, prompts[i])
            /\ (results # Absent /\ results.requirements # Absent) =>
                   LET listed ==
                           results.requirements["functional_requirements"].items
                   IN  /\ \A i \in 1..Len(listed) :
                              i > SummaryRequirements =>
                                  ~HasSubSeq(section, listed[i])
                       /\ Occurrences(section, ", ") < SummaryRequirements
            /\ results # Absent =>
                   /\ Occurrences(section, "c") =
                          Min(Occurrences(results.code, "c"), SummaryLimit)
                   /\ Contains(section, "...")
                          <=> Len(results.code) > SummaryLimit
                   /\ Len(results.code) > SummaryLimit =>
                          HasSubSeq(section, <<"c", "...", "\n">>)

\* Code of SummaryLimit + 1 characters: SummaryLimit of them and the
\* ellipsis are in the prompt, and the older prompt is not.
C23_Witness ==
    /\ stage = "requirement"
    /\ spc = "call"
    /\ context # Absent
    /\ context.previous_prompts = <<OlderInput, UnambiguousInput>>
    /\ Occurrences(prompt, "c") = SummaryLimit
    /\ Contains(prompt, "...")
    /\ ~HasSubSeq(BeforeRequest(prompt), OlderInput)

(***************************************************************************)
(* A further claim about the Test stage (checked under SpecStages).        *)
(***************************************************************************)

\* C24: for a response with an opening fence and no closing fence the Test
\* stage returns all the text after the opening fence, trimmed, with no
\* character of it lost.
C24_UnclosedFenceKeepsText ==
    (stage = "test" /\ spc = "returned"
     /\ Cardinality(FencesOf(ResponseText(response))) = 1) =>
        LET c    == ResponseText(response)
            open == CHOOSE i \in FencesOf(c) : TRUE
        IN  result = PyStr(Strip(SliceFrom(c, open + 1)))

====
